---- MODULE Spec2Model ----
(***************************************************************************)
(* The request handler of POST /api/sql-of-thought (the server pipeline    *)
(* with its correction loop) as a state machine.  One behaviour is one     *)
(* request.  Every action is one synchronous segment of the async handler: *)
(* the code that runs between two awaits, taken when the awaited upstream  *)
(* call (schema load, model call, DESCRIBE probe, SQL execution) returns   *)
(* a result or an error.                                                   *)
(***************************************************************************)
EXTENDS Integers, Sequences, FiniteSets

VARIABLES
    pc,             \* position of the handler (the await it is suspended at)
    hasApiKey,      \* req.body.apiKey is truthy
    hasQuestion,    \* req.body.question is truthy
    stream,         \* the frames written to the response with res.write, in order
    responseEnded,  \* let responseEnded
    endCalls,       \* number of res.end() invocations
    status400,      \* res.status(400).json(...) was sent
    success,        \* let success
    attempt,        \* let attempt
    generatedSQL,   \* let generatedSQL: id of the query text (0: none yet)
    sqlWithSchema,  \* let sqlWithSchema: id of the query text it was made from
    lastError,      \* error.match(/Table "(\w+)" does not have/) found a table
    calls,          \* upstream calls issued so far, in order
    returns,        \* the upstream calls that have returned, with their outcome
    closeRegistered,\* req.on('close', ...) has been registered
    clientClosed,   \* the client has closed the connection
    closedAt,       \* number of frames written when the client closed
    results,        \* let results
    rows,           \* the rows the engine handed to the last execution callback
    engineErrors,   \* err.message of each failed execution, in order
    corrInputs,     \* (incorrectSQL, error) given to each correctionPlanAgent call
    inputs,         \* what each execution and correction-agent call was given, in order
    rw,             \* the schema-qualification rewrite applied to one query text
    tool,           \* one call of the executor tool's executeSQL
    gs,             \* one call of getSchema
    idb,            \* the shared database handle and the requests calling initDB
    cli,            \* one run of the command-line pipeline sqlOfThought
    web             \* the browser client

vars == <<pc, hasApiKey, hasQuestion, stream, responseEnded, endCalls, status400,
          success, attempt, generatedSQL, sqlWithSchema, lastError, calls,
          returns, closeRegistered, clientClosed, closedAt, results, rows,
          engineErrors, corrInputs, inputs, rw, tool, gs, idb, cli, web>>

\* the state of the request handler; rw, tool and gs hold the state of the
\* components that are run on their own
handlerVars == <<pc, hasApiKey, hasQuestion, stream, responseEnded, endCalls, status400,
                 success, attempt, generatedSQL, sqlWithSchema, lastError, calls,
                 returns, closeRegistered, clientClosed, closedAt, results, rows,
                 engineErrors, corrInputs, inputs>>
Idle == [pc |-> "idle"]

\* let maxAttempts = 3
maxAttempts == 3

\* What a structured model call can come back with: a usable answer, JSON that
\* parses to an object without the key the stage reads, text that is not JSON,
\* or a rejected request (callOpenAI throws).  An unstructured call, and
\* getSchema, resolve or reject; an execution yields rows or an engine error.
JsonOutcomes == {"ok", "nokey", "malformed", "throw"}
TextOutcomes == {"ok", "throw"}
ExecOutcomes == {"ok", "fail"}
Returned(c, o) == [call |-> c, outcome |-> o]

\* The envelope { type, data } of one frame; the fields a type does not carry
\* are left at their defaults.
AgentEvent(t, a) ==
    [type |-> t, agent |-> a, success |-> FALSE, sql |-> 0, attempts |-> 0,
     error |-> "", results |-> <<>>]
\* emit('agent_error', { agent: 'execute', error: error.message })
ExecuteError_prefixed(m) ==
    [AgentEvent("agent_error", "execute") EXCEPT !.error = "Execution failed: " \o m]
ExecuteError(m) == [AgentEvent("agent_error", "execute") EXCEPT !.error = m]
CompleteEvent(succ, sql, res, att) ==
    [type |-> "complete", agent |-> "", success |-> succ, sql |-> sql, attempts |-> att,
     error |-> "", results |-> res]
ErrorEvent ==
    [type |-> "error", agent |-> "", success |-> FALSE, sql |-> 0, attempts |-> 0,
     error |-> "", results |-> <<>>]

\* const emit = (type, data) => { if (responseEnded) return; res.write(...) }
Emit_ignoresEnded(st, ended, ev) == Append(st, ev)
Emit(st, ended, ev) == IF ended THEN st ELSE Append(st, ev)

\* while (attempt < maxAttempts && !success)
LoopCond_noSuccessTest(att, succ) == att < maxAttempts
LoopCond(att, succ) == att < maxAttempts /\ ~succ

\* if (attempt < maxAttempts - 1)
CanCorrect_offByOne(att) == att < maxAttempts
CanCorrect_flipped(att) == att > maxAttempts - 1
CanCorrect(att) == att < maxAttempts - 1

\* attempts: attempt + 1
ReportedAttempts(att) == att + 1

\* JSON.parse(response) of a structured stage throws, or callOpenAI rejected
ParseThrows(o) == o \in {"malformed", "throw"}

\* schema stage: JSON.parse throws, or linkedSchema.tables.join throws on a
\* parsed object without `tables`
SchemaLinkThrows_swallowed(o) == o = "throw"
SchemaLinkThrows(o) == ParseThrows(o) \/ o = "nokey"

\* catch: if (!responseEnded) res.write(error frame)
CatchStream_flipped(st, ended) == IF ended THEN Append(st, ErrorEvent) ELSE st
CatchStream(st, ended) == IF ~ended THEN Append(st, ErrorEvent) ELSE st

\* if (!apiKey) return 400 ...; if (!question) return 400 ...
Rejected_needsBoth(key, question) == ~key /\ ~question
Rejected(key, question) == ~key \/ ~question

Init ==
    /\ pc = "start"
    /\ hasApiKey \in BOOLEAN
    /\ hasQuestion \in BOOLEAN
    /\ stream = <<>>
    /\ responseEnded = FALSE
    /\ endCalls = 0
    /\ status400 = FALSE
    /\ success = FALSE
    /\ attempt = 0
    /\ generatedSQL = 0
    /\ sqlWithSchema = 0
    /\ lastError = FALSE
    /\ calls = <<>>
    /\ returns = <<>>
    /\ closeRegistered = FALSE
    /\ clientClosed = FALSE
    /\ closedAt = 0
    /\ results = <<>>
    /\ rows = <<>>
    /\ engineErrors = <<>>
    /\ corrInputs = <<>>
    /\ inputs = <<>>
    /\ rw = Idle
    /\ tool = Idle
    /\ gs = Idle
    /\ idb = Idle
    /\ cli = Idle
    /\ web = Idle

\* safeEnd: if (!responseEnded) { responseEnded = true; res.end() }
SafeEndCalls_unguarded(ended, n) == n + 1
SafeEndCalls(ended, n) == IF ended THEN n ELSE n + 1

\* safeEnd(), then the handler runs on to req.on('close', ...).  A close that
\* happened before the listener was registered is never delivered to it.
Finish(st) ==
    /\ stream' = st
    /\ responseEnded' = TRUE
    /\ endCalls' = SafeEndCalls(responseEnded, endCalls)
    /\ closeRegistered' = TRUE
    /\ pc' = "done"

\* catch (error) { ... write the error frame ...; safeEnd() }
Catch(st) == Finish(CatchStream(st, responseEnded))

\* What a call of the loop was given: the query of db.all(sqlWithSchema), the
\* failed query and error text in the prompt of correctionPlanAgent, with or
\* without the table-inspection section after the DESCRIBE probe (probe: its
\* outcome, "none" when the error names no table), and the failed query in the
\* prompt of correctionSQLAgent.
ExecuteInput(sql) ==
    [call |-> "execute", sql |-> sql, error |-> "", probe |-> "none",
     tableInspection |-> FALSE]
PlanInput(sql, m, probe, inspection) ==
    [call |-> "llm_corrplan", sql |-> sql, error |-> m, probe |-> probe,
     tableInspection |-> inspection]
SQLInput(sql) ==
    [call |-> "llm_corrsql", sql |-> sql, error |-> "", probe |-> "none",
     tableInspection |-> FALSE]

\* The head of the while loop, reached with the values att, succ, gsql, sws, res, st
\* of attempt, success, generatedSQL, sqlWithSchema, results and the stream: either the next execution is
\* started, or the loop is left, the final result is sent and the response is
\* ended.
LoopHead(att, succ, gsql, sws, res, st) ==
    IF LoopCond(att, succ)
    THEN /\ stream' = Emit(st, responseEnded, AgentEvent("agent_start", "execute"))
         /\ calls' = Append(calls, "execute")
         /\ inputs' = Append(inputs, ExecuteInput(sws))
         /\ pc' = "await_execute"
         /\ UNCHANGED <<responseEnded, endCalls, closeRegistered>>
    ELSE /\ Finish(Emit(st, responseEnded,
                        CompleteEvent(succ, gsql, res, ReportedAttempts(att))))
         /\ UNCHANGED <<calls, inputs>>

\* if (!apiKey) return 400; if (!question) return 400; SSE headers;
\* emit('agent_start', schema); getSchema() is awaited.
Validate ==
    /\ pc = "start"
    /\ IF Rejected(hasApiKey, hasQuestion)
       THEN /\ status400' = TRUE
            /\ pc' = "returned"
            /\ UNCHANGED <<stream, calls>>
       ELSE /\ stream' = Emit(stream, responseEnded, AgentEvent("agent_start", "schema"))
            /\ calls' = Append(calls, "getSchema")
            /\ pc' = "await_getSchema"
            /\ UNCHANGED status400
    /\ UNCHANGED <<hasApiKey, hasQuestion, responseEnded, endCalls, success, attempt,
                   generatedSQL, sqlWithSchema, lastError, returns,
                   closeRegistered, clientClosed, closedAt, results, rows,
                   engineErrors, corrInputs,
                   inputs, rw, tool, gs, idb, cli, web>>

\* getSchema() settles: on a schema it is handed to schemaLinkingAgent, whose
\* model call is awaited; a rejection is caught by the handler's catch.
GetSchemaReturn ==
    /\ pc = "await_getSchema"
    /\ \E o \in TextOutcomes :
         /\ returns' = Append(returns, Returned("getSchema", o))
         /\ IF o = "ok"
            THEN /\ calls' = Append(calls, "llm_schema")
                 /\ pc' = "await_schema"
                 /\ UNCHANGED <<stream, responseEnded, endCalls, closeRegistered>>
            ELSE /\ Catch(stream)
                 /\ UNCHANGED calls
    /\ UNCHANGED <<hasApiKey, hasQuestion, status400, success, attempt, generatedSQL,
                   sqlWithSchema, lastError, clientClosed, closedAt, results, rows,
                   engineErrors, corrInputs,
                   inputs, rw, tool, gs, idb, cli, web>>

\* schemaLinkingAgent returns: emit complete(schema), emit start(subproblem),
\* subproblemAgent's model call is awaited.
SchemaLinkReturn ==
    /\ pc = "await_schema"
    /\ \E o \in JsonOutcomes :
         /\ returns' = Append(returns, Returned("llm_schema", o))
         /\ IF SchemaLinkThrows(o)
            THEN /\ Catch(stream)
                 /\ UNCHANGED calls
            ELSE /\ stream' = Emit(Emit(stream, responseEnded,
                                        AgentEvent("agent_complete", "schema")),
                                   responseEnded, AgentEvent("agent_start", "subproblem"))
                 /\ calls' = Append(calls, "llm_subproblem")
                 /\ pc' = "await_subproblem"
                 /\ UNCHANGED <<responseEnded, endCalls, closeRegistered>>
    /\ UNCHANGED <<hasApiKey, hasQuestion, status400, success, attempt, generatedSQL,
                   sqlWithSchema, lastError, clientClosed, closedAt, results, rows,
                   engineErrors, corrInputs,
                   inputs, rw, tool, gs, idb, cli, web>>

\* subproblemAgent returns: emit complete(subproblem) (a missing `clauses` is
\* read as {}), emit start(queryplan), queryPlanAgent's model call is awaited.
SubproblemReturn ==
    /\ pc = "await_subproblem"
    /\ \E o \in JsonOutcomes :
         /\ returns' = Append(returns, Returned("llm_subproblem", o))
         /\ IF ParseThrows(o)
            THEN /\ Catch(stream)
                 /\ UNCHANGED calls
            ELSE /\ stream' = Emit(Emit(stream, responseEnded,
                                        AgentEvent("agent_complete", "subproblem")),
                                   responseEnded, AgentEvent("agent_start", "queryplan"))
                 /\ calls' = Append(calls, "llm_queryplan")
                 /\ pc' = "await_queryplan"
                 /\ UNCHANGED <<responseEnded, endCalls, closeRegistered>>
    /\ UNCHANGED <<hasApiKey, hasQuestion, status400, success, attempt, generatedSQL,
                   sqlWithSchema, lastError, clientClosed, closedAt, results, rows,
                   engineErrors, corrInputs,
                   inputs, rw, tool, gs, idb, cli, web>>

\* queryPlanAgent returns: emit complete(queryplan) (missing `steps` shown as
\* 'No steps generated'), emit start(sql), sqlGenerationAgent's call is awaited.
QueryPlanReturn ==
    /\ pc = "await_queryplan"
    /\ \E o \in JsonOutcomes :
         /\ returns' = Append(returns, Returned("llm_queryplan", o))
         /\ IF ParseThrows(o)
            THEN /\ Catch(stream)
                 /\ UNCHANGED calls
            ELSE /\ stream' = Emit(Emit(stream, responseEnded,
                                        AgentEvent("agent_complete", "queryplan")),
                                   responseEnded, AgentEvent("agent_start", "sql"))
                 /\ calls' = Append(calls, "llm_sql")
                 /\ pc' = "await_sql"
                 /\ UNCHANGED <<responseEnded, endCalls, closeRegistered>>
    /\ UNCHANGED <<hasApiKey, hasQuestion, status400, success, attempt, generatedSQL,
                   sqlWithSchema, lastError, clientClosed, closedAt, results, rows,
                   engineErrors, corrInputs,
                   inputs, rw, tool, gs, idb, cli, web>>
\* Result rows: a row maps each column to a value, and a value is a bigint, a
\* number or a string (a sequence of characters).
MaxRows == 1
Columns == {"InvoiceId", "Total"}
BigIntValue(n) == [kind |-> "bigint", n |-> n, s |-> <<>>]
NumberValue(n) == [kind |-> "number", n |-> n, s |-> <<>>]
StringValue(str) == [kind |-> "string", n |-> 0, s |-> str]
Values == {BigIntValue(-45), BigIntValue(2147483647), NumberValue(3),
           StringValue(<<"1", "2">>)}
\* a column holds values of its type, and NULL-free rows: InvoiceId is a
\* BIGINT or a VARCHAR column, Total a BIGINT or a DOUBLE one
ColumnValues(c) ==
    IF c = "InvoiceId" THEN {BigIntValue(2147483647), StringValue(<<"1", "2">>)}
    ELSE {BigIntValue(-45), NumberValue(3)}
Rows == {r \in [Columns -> Values] : \A c \in Columns : r[c] \in ColumnValues(c)}
RowSets == UNION {[1..k -> Rows] : k \in 0..MaxRows}

\* BigInt.prototype.toString(): the decimal digits, most significant first,
\* after a '-' for a negative value
DigitChar(d) == <<"0", "1", "2", "3", "4", "5", "6", "7", "8", "9">>[d + 1]
RECURSIVE NatDigits(_)
NatDigits(n) ==
    IF n < 10 THEN <<DigitChar(n)>> ELSE NatDigits(n \div 10) \o <<DigitChar(n % 10)>>
BigIntToString(n) == IF n < 0 THEN <<"-">> \o NatDigits(0 - n) ELSE NatDigits(n)

\* converted[key] = typeof value === 'bigint' ? value.toString() : value
CleanValue_testsNumber(v) ==
    IF v.kind = "number" THEN StringValue(BigIntToString(v.n)) ELSE v
CleanValue(v) == IF v.kind = "bigint" THEN StringValue(BigIntToString(v.n)) ELSE v
\* const cleanResults = results.map(row => { ... Object.entries(row) ... })
CleanResults(rs) == [i \in DOMAIN rs |-> [c \in DOMAIN rs[i] |-> CleanValue(rs[i][c])]]

\* err.message of a rejected query; correctionPlanAgent's
\* error.match(/Table "(\w+)" does not have/) finds a table in the second
NoTableError == "Parser Error: syntax error at or near \"FORM\""
TableError == "Binder Error: Table \"Album\" does not have a column named \"Name\""
ErrorMessages == {NoTableError, TableError}
TableMatch(m) == m = TableError
\* correctionPlanAgent(question, sqlWithSchema, error.message, ...)
CorrectionInput(sql, m) == [incorrectSQL |-> sql, error |-> m]

\* sqlGenerationAgent returns: generatedSQL, its schema-qualified sqlWithSchema,
\* emit complete(sql); success = false, attempt = 0; the loop is entered.
SqlGenReturn ==
    /\ pc = "await_sql"
    /\ \E o \in TextOutcomes :
         /\ returns' = Append(returns, Returned("llm_sql", o))
         /\ IF o = "throw"
            THEN /\ Catch(stream)
                 /\ UNCHANGED <<calls, inputs, generatedSQL, sqlWithSchema>>
            ELSE /\ generatedSQL' = 1
                 /\ sqlWithSchema' = 1
                 /\ LoopHead(0, FALSE, 1, 1, <<>>,
                             Emit(stream, responseEnded, AgentEvent("agent_complete", "sql")))
    /\ success' = FALSE
    /\ attempt' = 0
    /\ UNCHANGED <<hasApiKey, hasQuestion, status400, lastError, clientClosed, closedAt,
                   results, rows, engineErrors, corrInputs,
                   rw, tool, gs, idb, cli, web>>

\* db.all(sqlWithSchema) calls back.  Rows: emit complete(execute), success =
\* true, back to the loop head.  An error: emit agent_error(execute); below the
\* last attempt emit start(correction) and enter correctionPlanAgent, which
\* probes the table the error names (DESCRIBE) or goes straight to its model
\* call; on the last attempt emit complete(correction), attempt++, loop head.
ExecuteReturn ==
    /\ pc = "await_execute"
    /\ \E o \in ExecOutcomes, raw \in RowSets, m \in ErrorMessages :
         /\ returns' = Append(returns, Returned("execute", o))
         /\ IF o = "ok"
            THEN /\ m = NoTableError
                 /\ success' = TRUE
                 /\ rows' = raw
                 /\ results' = CleanResults(raw)
                 /\ LoopHead(attempt, TRUE, generatedSQL, sqlWithSchema, CleanResults(raw),
                             Emit(stream, responseEnded, AgentEvent("agent_complete", "execute")))
                 /\ UNCHANGED <<attempt, lastError, engineErrors, corrInputs>>
            ELSE IF CanCorrect(attempt)
            THEN /\ raw = <<>>
                 /\ stream' = Emit(Emit(stream, responseEnded, ExecuteError(m)),
                                   responseEnded, AgentEvent("agent_start", "correction"))
                 /\ engineErrors' = Append(engineErrors, m)
                 /\ corrInputs' = Append(corrInputs, CorrectionInput(sqlWithSchema, m))
                 /\ lastError' = TableMatch(m)
                 /\ calls' = Append(calls, IF TableMatch(m) THEN "describe" ELSE "llm_corrplan")
                 /\ inputs' = IF TableMatch(m) THEN inputs
                              ELSE Append(inputs, PlanInput(sqlWithSchema, m, "none", FALSE))
                 /\ pc' = IF TableMatch(m) THEN "await_describe" ELSE "await_corrplan"
                 /\ UNCHANGED <<success, attempt, responseEnded, endCalls, closeRegistered,
                                results, rows>>
            ELSE /\ raw = <<>>
                 /\ attempt' = attempt + 1
                 /\ engineErrors' = Append(engineErrors, m)
                 /\ LoopHead(attempt + 1, success, generatedSQL, sqlWithSchema, results,
                             Emit(Emit(stream, responseEnded, ExecuteError(m)),
                                  responseEnded, AgentEvent("agent_complete", "correction")))
                 /\ UNCHANGED <<success, lastError, results, rows, corrInputs>>
    /\ UNCHANGED <<hasApiKey, hasQuestion, status400, generatedSQL, sqlWithSchema,
                   clientClosed, closedAt,
                   rw, tool, gs, idb, cli, web>>

\* db.all('DESCRIBE chinook.<table>') calls back with columns, with none, or
\* with an error
DescribeOutcomes == {"ok", "empty", "fail"}
\* if (err) resolve([]): the probe's promise never rejects
ProbeThrows_rejects(o) == o = "fail"
ProbeThrows(o) == FALSE
\* if (columns.length > 0) tableInspection = ...
TableInspection_always(o) == TRUE
TableInspection(o) == o = "ok"

\* The DESCRIBE probe calls back: an error is resolved as no columns; either
\* way the prompt is built and the correction plan's model call is awaited.
DescribeReturn ==
    /\ pc = "await_describe"
    /\ \E o \in DescribeOutcomes :
         /\ returns' = Append(returns, Returned("describe", o))
         /\ IF ProbeThrows(o)
            THEN /\ Catch(stream)
                 /\ UNCHANGED <<calls, inputs>>
            ELSE /\ calls' = Append(calls, "llm_corrplan")
                 /\ inputs' = LET given == corrInputs[Len(corrInputs)]
                              IN  Append(inputs, PlanInput(given.incorrectSQL, given.error,
                                                           o, TableInspection(o)))
                 /\ pc' = "await_corrplan"
                 /\ UNCHANGED <<stream, responseEnded, endCalls, closeRegistered>>
    /\ UNCHANGED <<hasApiKey, hasQuestion, status400,
                   success, attempt, generatedSQL, sqlWithSchema, lastError,
                   clientClosed, closedAt, results, rows,
                   engineErrors, corrInputs,
                   rw, tool, gs, idb, cli, web>>

\* correctionPlanAgent returns the parsed plan; correctionSQLAgent's model call
\* is awaited.
CorrectionPlanReturn ==
    /\ pc = "await_corrplan"
    /\ \E o \in JsonOutcomes :
         /\ returns' = Append(returns, Returned("llm_corrplan", o))
         /\ IF ParseThrows(o)
            THEN /\ Catch(stream)
                 /\ UNCHANGED <<calls, inputs>>
            ELSE /\ calls' = Append(calls, "llm_corrsql")
                 /\ inputs' = Append(inputs, SQLInput(sqlWithSchema))
                 /\ pc' = "await_corrsql"
                 /\ UNCHANGED <<stream, responseEnded, endCalls, closeRegistered>>
    /\ UNCHANGED <<hasApiKey, hasQuestion, status400, success, attempt, generatedSQL,
                   sqlWithSchema, lastError, clientClosed, closedAt, results, rows,
                   engineErrors, corrInputs,
                   rw, tool, gs, idb, cli, web>>

\* sqlWithSchema = correctedSQL.replace(...): the qualified form of the next
\* query text a model produced replaces the query
Corrected_kept(sws) == sws
Corrected(sws) == sws + 1

\* correctionSQLAgent returns: emit complete(correction) (missing plan keys are
\* shown as 'Analyzing...'), sqlWithSchema is replaced by the qualified
\* corrected query, emit agent_update(sql), attempt++, back to the loop head.
CorrectionSQLReturn ==
    /\ pc = "await_corrsql"
    /\ \E o \in TextOutcomes :
         /\ returns' = Append(returns, Returned("llm_corrsql", o))
         /\ IF o = "throw"
            THEN /\ Catch(stream)
                 /\ UNCHANGED <<calls, inputs, attempt, sqlWithSchema>>
            ELSE /\ sqlWithSchema' = Corrected(sqlWithSchema)
                 /\ attempt' = attempt + 1
                 /\ LoopHead(attempt + 1, success, generatedSQL, Corrected(sqlWithSchema),
                             results,
                             Emit(Emit(stream, responseEnded,
                                       AgentEvent("agent_complete", "correction")),
                                  responseEnded, AgentEvent("agent_update", "sql")))
    /\ UNCHANGED <<hasApiKey, hasQuestion, status400, success, generatedSQL, lastError,
                   clientClosed, closedAt, results, rows, engineErrors, corrInputs,
                   rw, tool, gs, idb, cli, web>>

\* The client closes the connection.  The 'close' listener sets responseEnded,
\* but only once the handler has registered it, after the pipeline.
ClientClose ==
    /\ pc # "idle"
    /\ ~clientClosed
    /\ clientClosed' = TRUE
    /\ closedAt' = Len(stream)
    /\ responseEnded' = IF closeRegistered THEN TRUE ELSE responseEnded
    /\ UNCHANGED <<pc, hasApiKey, hasQuestion, stream, endCalls, status400, success,
                   attempt, generatedSQL, sqlWithSchema, lastError, calls, returns,
                   closeRegistered, results, rows, engineErrors, corrInputs,
                   inputs, rw, tool, gs, idb, cli, web>>

Next ==
    \/ Validate
    \/ GetSchemaReturn
    \/ SchemaLinkReturn
    \/ SubproblemReturn
    \/ QueryPlanReturn
    \/ SqlGenReturn
    \/ ExecuteReturn
    \/ DescribeReturn
    \/ CorrectionPlanReturn
    \/ CorrectionSQLReturn
    \/ ClientClose

Spec == Init /\ [][Next]_vars

\* Every upstream call (schema load, model call, execution, probe) eventually
\* calls back, and the handler then runs its next segment; the client is under
\* no obligation to close.
HandlerStep ==
    \/ Validate
    \/ GetSchemaReturn
    \/ SchemaLinkReturn
    \/ SubproblemReturn
    \/ QueryPlanReturn
    \/ SqlGenReturn
    \/ ExecuteReturn
    \/ DescribeReturn
    \/ CorrectionPlanReturn
    \/ CorrectionSQLReturn

SpecLive == Spec /\ WF_vars(HandlerStep)

(***************************************************************************)
(* The handler's two closures, emit and safeEnd, called in any order, with *)
(* the 'close' listener registered.                                        *)
(***************************************************************************)
MaxEmitterCalls == 4
EmitterEvents == {AgentEvent("agent_start", "schema"), AgentEvent("agent_complete", "schema"),
                  CompleteEvent(TRUE, 1, <<>>, 1), ErrorEvent}

InitEmitter ==
    /\ pc = "emitter"
    /\ hasApiKey = TRUE
    /\ hasQuestion = TRUE
    /\ stream = <<>>
    /\ responseEnded = FALSE
    /\ endCalls = 0
    /\ status400 = FALSE
    /\ success = FALSE
    /\ attempt = 0
    /\ generatedSQL = 0
    /\ sqlWithSchema = 0
    /\ lastError = FALSE
    /\ calls = <<>>
    /\ returns = <<>>
    /\ closeRegistered = TRUE
    /\ clientClosed = FALSE
    /\ closedAt = 0
    /\ results = <<>>
    /\ rows = <<>>
    /\ engineErrors = <<>>
    /\ corrInputs = <<>>
    /\ inputs = <<>>
    /\ rw = Idle
    /\ tool = Idle
    /\ gs = Idle
    /\ idb = Idle
    /\ cli = Idle
    /\ web = Idle

\* emit(type, data)
EmitCall ==
    /\ pc = "emitter"
    /\ Len(calls) < MaxEmitterCalls
    /\ \E ev \in EmitterEvents : stream' = Emit(stream, responseEnded, ev)
    /\ calls' = Append(calls, "emit")
    /\ UNCHANGED <<pc, hasApiKey, hasQuestion, responseEnded, endCalls, status400, success,
                   attempt, generatedSQL, sqlWithSchema, lastError, returns,
                   closeRegistered, clientClosed, closedAt, results, rows, engineErrors,
                   corrInputs, inputs, rw, tool, gs, idb, cli, web>>

\* safeEnd()
SafeEndCall ==
    /\ pc = "emitter"
    /\ Len(calls) < MaxEmitterCalls
    /\ responseEnded' = TRUE
    /\ endCalls' = SafeEndCalls(responseEnded, endCalls)
    /\ calls' = Append(calls, "safeEnd")
    /\ UNCHANGED <<pc, hasApiKey, hasQuestion, stream, status400, success, attempt,
                   generatedSQL, sqlWithSchema, lastError, returns, closeRegistered,
                   clientClosed, closedAt, results, rows, engineErrors, corrInputs,
                   inputs, rw, tool, gs, idb, cli, web>>

NextEmitter ==
    \/ EmitCall
    \/ SafeEndCall
    \/ ClientClose

SpecEmitter == InitEmitter /\ [][NextEmitter]_vars

(***************************************************************************)
(* The handler is not running: the state of the components below when they *)
(* are exercised on their own.                                             *)
(***************************************************************************)
HandlerIdle ==
    /\ pc = "idle"
    /\ hasApiKey = TRUE
    /\ hasQuestion = TRUE
    /\ stream = <<>>
    /\ responseEnded = FALSE
    /\ endCalls = 0
    /\ status400 = FALSE
    /\ success = FALSE
    /\ attempt = 0
    /\ generatedSQL = 0
    /\ sqlWithSchema = 0
    /\ lastError = FALSE
    /\ calls = <<>>
    /\ returns = <<>>
    /\ closeRegistered = FALSE
    /\ clientClosed = FALSE
    /\ closedAt = 0
    /\ results = <<>>
    /\ rows = <<>>
    /\ engineErrors = <<>>
    /\ corrInputs = <<>>
    /\ inputs = <<>>

(***************************************************************************)
(* SQL text as a sequence of lexical pieces: the two keywords the rewrites *)
(* look for, a table-name word, white space, the catalog prefix            *)
(* 'chinook.', a character that is neither word nor space, and a comment.  *)
(***************************************************************************)
MaxTokens == 4
Space == " "
Catalog == "chinook."
Comment == "/*c*/"
WordTokens == {"FROM", "JOIN", "x"}
Tokens == WordTokens \cup {Space, Catalog, "(", Comment}
SqlTexts == UNION {[1..n -> Tokens] : n \in 0..MaxTokens}

\* .replace(/chinook\.chinook\./gi, 'chinook.'): non-overlapping matches, left to right
RECURSIVE CollapseDouble(_)
CollapseDouble(s) ==
    IF Len(s) < 2 THEN s
    ELSE IF s[1] = Catalog /\ s[2] = Catalog
         THEN <<Catalog>> \o CollapseDouble(SubSeq(s, 3, Len(s)))
         ELSE <<s[1]>> \o CollapseDouble(Tail(s))

\* \s+ : the first position at or after i that is not white space
RECURSIVE SkipSpaces(_, _)
SkipSpaces(s, i) == IF i <= Len(s) /\ s[i] = Space THEN SkipSpaces(s, i + 1) ELSE i

\* (\w+) : greedy; it also takes the word 'chinook' of a following 'chinook.',
\* whose dot is then copied with the unmatched text
RECURSIVE WordEnd(_, _)
WordEnd(s, i) == IF i <= Len(s) /\ s[i] \in WordTokens THEN WordEnd(s, i + 1) ELSE i
NameEnd(s, j) ==
    LET k == WordEnd(s, j)
    IN  IF k <= Len(s) /\ s[k] = Catalog THEN k + 1 ELSE k

\* what may follow the white space: with the (?!chinook\.) lookahead a word that
\* does not begin the catalog prefix, without it any word
NameStarts(s, j, lookahead) ==
    /\ j <= Len(s)
    /\ \/ s[j] \in WordTokens
       \/ ~lookahead /\ s[j] = Catalog

\* .replace(/KW\s+(?!chinook\.)(\w+)/gi, 'KW chinook.$1'), and the same without
\* the lookahead
RECURSIVE Prefix(_, _, _)
Prefix(kw, s, lookahead) ==
    IF s = <<>> THEN <<>>
    ELSE LET j == SkipSpaces(s, 2)
             k == NameEnd(s, j)
         IN  IF s[1] = kw /\ j > 2 /\ NameStarts(s, j, lookahead)
             THEN <<kw, Space, Catalog>> \o SubSeq(s, j, k - 1)
                      \o Prefix(kw, SubSeq(s, k, Len(s)), lookahead)
             ELSE <<s[1]>> \o Prefix(kw, Tail(s), lookahead)

\* the handler's rewrite of the generated and of the corrected SQL
ServerQualify(s) == Prefix("JOIN", Prefix("FROM", CollapseDouble(s), TRUE), TRUE)

\* the executor tool's rewrite
ToolQualify(s) == Prefix("JOIN", Prefix("FROM", s, FALSE), FALSE)

HasDouble(s) == \E i \in 1..(Len(s) - 1) : s[i] = Catalog /\ s[i + 1] = Catalog

(***************************************************************************)
(* The handler's rewrite applied to a text, and again to its own output.   *)
(***************************************************************************)
InitRewrite ==
    /\ HandlerIdle
    /\ rw \in {[pc |-> "input", text |-> t, once |-> <<>>, twice |-> <<>>] : t \in SqlTexts}
    /\ tool = Idle
    /\ gs = Idle
    /\ idb = Idle
    /\ cli = Idle
    /\ web = Idle

ApplyRewrite ==
    /\ rw.pc = "input"
    /\ rw' = [rw EXCEPT !.pc = "once", !.once = ServerQualify(rw.text)]
    /\ UNCHANGED <<handlerVars, tool, gs, idb, cli, web>>

ApplyRewriteAgain ==
    /\ rw.pc = "once"
    /\ rw' = [rw EXCEPT !.pc = "twice", !.twice = ServerQualify(rw.once)]
    /\ UNCHANGED <<handlerVars, tool, gs, idb, cli, web>>

NextRewrite ==
    \/ ApplyRewrite
    \/ ApplyRewriteAgain

SpecRewrite == InitRewrite /\ [][NextRewrite]_vars

(***************************************************************************)
(* The SQL executor tool: executeSQL(sql, dbPath) of                       *)
(* src/tools/sql-executor-tool.ts, one action per callback.                *)
(***************************************************************************)
IsCode(t) == t # Comment
StripComments(s) == SelectSeq(s, IsCode)

RECURSIVE TrimLeft(_)
TrimLeft(s) == IF s # <<>> /\ s[1] = Space THEN TrimLeft(Tail(s)) ELSE s
RECURSIVE TrimRight(_)
TrimRight(s) ==
    IF s # <<>> /\ s[Len(s)] = Space THEN TrimRight(SubSeq(s, 1, Len(s) - 1)) ELSE s
Trim(s) == TrimRight(TrimLeft(s))

CleanSQL(sql) == Trim(StripComments(sql))

\* the rows the tool's engine may return
ToolRowSets == {rs \in RowSets : Len(rs) <= 1}

EmptyError == "Empty SQL query after cleaning"
InstallError(m) == "Failed to load SQLite extension: " \o m
AttachError(m) == "Failed to attach database: " \o m
QueryError_prefixed(m) == "Query failed: " \o m
QueryError(m) == m

\* the ExecutionResult the promise resolves with
ToolFailure(text, timed) ==
    [success |-> FALSE, error |-> text, result |-> <<>>, row_count |-> 0, timed |-> timed]
ToolSuccess(rs) ==
    [success |-> TRUE, error |-> "", result |-> rs, row_count |-> Len(rs), timed |-> TRUE]
Unresolved == [success |-> FALSE, error |-> "", result |-> <<>>, row_count |-> 0,
               timed |-> FALSE]

InitTool ==
    /\ HandlerIdle
    /\ rw = Idle
    /\ tool \in {[pc |-> "called", sql |-> t, cleaned |-> <<>>, submitted |-> <<>>,
                  rejected |-> FALSE, engineError |-> "", engineRows |-> <<>>,
                  closes |-> 0, result |-> Unresolved] : t \in SqlTexts}
    /\ gs = Idle
    /\ idb = Idle
    /\ cli = Idle
    /\ web = Idle

\* the promise executor up to the first db.all
ToolClean ==
    /\ tool.pc = "called"
    /\ LET cleanedSQL == CleanSQL(tool.sql)
       IN  tool' = IF cleanedSQL = <<>>
                   THEN [tool EXCEPT !.pc = "resolved",
                                     !.result = ToolFailure(EmptyError, FALSE)]
                   ELSE [tool EXCEPT !.pc = "install", !.cleaned = cleanedSQL]
    /\ UNCHANGED <<handlerVars, rw, gs, idb, cli, web>>

\* callback of INSTALL sqlite; LOAD sqlite;
ToolInstallReturn ==
    /\ tool.pc = "install"
    /\ \E o \in ExecOutcomes, m \in ErrorMessages :
           tool' = IF o = "fail"
                   THEN [tool EXCEPT !.pc = "resolved",
                                     !.result = ToolFailure(InstallError(m), TRUE)]
                   ELSE [tool EXCEPT !.pc = "attach"]
    /\ UNCHANGED <<handlerVars, rw, gs, idb, cli, web>>

\* callback of ATTACH; on success the rewritten query is submitted
ToolAttachReturn ==
    /\ tool.pc = "attach"
    /\ \E o \in ExecOutcomes, m \in ErrorMessages :
           tool' = IF o = "fail"
                   THEN [tool EXCEPT !.pc = "resolved", !.closes = @ + 1,
                                     !.result = ToolFailure(AttachError(m), TRUE)]
                   ELSE [tool EXCEPT !.pc = "query",
                                     !.submitted = ToolQualify(tool.cleaned)]
    /\ UNCHANGED <<handlerVars, rw, gs, idb, cli, web>>

\* callback of the query
ToolQueryReturn ==
    /\ tool.pc = "query"
    /\ \E o \in ExecOutcomes, m \in ErrorMessages, rs \in ToolRowSets :
           tool' = IF o = "fail"
                   THEN [tool EXCEPT !.pc = "resolved", !.closes = @ + 1,
                                     !.rejected = TRUE, !.engineError = m,
                                     !.result = ToolFailure(QueryError(m), TRUE)]
                   ELSE [tool EXCEPT !.pc = "resolved", !.closes = @ + 1,
                                     !.engineRows = rs,
                                     !.result = ToolSuccess(rs)]
    /\ UNCHANGED <<handlerVars, rw, gs, idb, cli, web>>

NextTool ==
    \/ ToolClean
    \/ ToolInstallReturn
    \/ ToolAttachReturn
    \/ ToolQueryReturn

SpecTool == InitTool /\ [][NextTool]_vars

\* a request to the server, or a call of the tool
SpecServerAndTool == (Init \/ InitTool) /\ [][Next \/ NextTool]_vars

(***************************************************************************)
(* The server's getSchema(): the table query, then for every table its     *)
(* column query and, from the column callback, its foreign-key query; the  *)
(* callbacks of different tables arrive in any order.                      *)
(***************************************************************************)
TableNames == {"Album", "Artist", "Track"}

InitSchema ==
    /\ HandlerIdle
    /\ rw = Idle
    /\ tool = Idle
    /\ idb = Idle
    /\ cli = Idle
    /\ web = Idle
    /\ gs = [pc |-> "initDB", tables |-> {}, columnsPending |-> {}, fksPending |-> {},
             schemaTables |-> {}, foreign_keys |-> {}, processed |-> 0,
             failed |-> {}, settled |-> "pending", settleCalls |-> 0]

\* await initDB()
InitDBReturn ==
    /\ gs.pc = "initDB"
    /\ \E o \in ExecOutcomes :
           gs' = IF o = "fail"
                 THEN [gs EXCEPT !.pc = "settled", !.settled = "rejected",
                                 !.settleCalls = @ + 1,
                                 !.failed = {<<"initDB", "">>}]
                 ELSE [gs EXCEPT !.pc = "tables"]
    /\ UNCHANGED <<handlerVars, rw, tool, idb, cli, web>>

\* callback of the table query
TablesReturn ==
    /\ gs.pc = "tables"
    /\ \E o \in ExecOutcomes, ts \in SUBSET TableNames :
           gs' = IF o = "fail"
                 THEN [gs EXCEPT !.pc = "settled", !.settled = "rejected",
                                 !.settleCalls = @ + 1,
                                 !.failed = {<<"tables", "">>}]
                 ELSE IF ts = {}
                 THEN [gs EXCEPT !.pc = "settled", !.settled = "resolved",
                                 !.settleCalls = @ + 1]
                 ELSE [gs EXCEPT !.pc = "queries", !.tables = ts,
                                 !.columnsPending = ts]
    /\ UNCHANGED <<handlerVars, rw, tool, idb, cli, web>>

\* callback of the column query of table t
ColumnsReturn ==
    /\ gs.pc = "queries"
    /\ \E t \in gs.columnsPending, o \in ExecOutcomes :
           gs' = [gs EXCEPT !.columnsPending = @ \ {t},
                            !.fksPending = @ \cup {t},
                            !.schemaTables = IF o = "ok" THEN @ \cup {t} ELSE @,
                            !.failed = IF o = "ok" THEN @ ELSE @ \cup {<<"columns", t>>}]
    /\ UNCHANGED <<handlerVars, rw, tool, idb, cli, web>>

\* if (processed === tables.length)
AllProcessed_first(processed, n) == processed >= 1
AllProcessed(processed, n) == processed = n

\* callback of the foreign-key query of table t: processed++, and resolve(schema)
\* when the test holds; a resolve of a promise already settled changes nothing.
\* The call is over once no callback is outstanding.
ForeignKeysReturn ==
    /\ gs.pc = "queries"
    /\ \E t \in gs.fksPending, o \in ExecOutcomes :
           LET done == AllProcessed(gs.processed + 1, Cardinality(gs.tables))
               last == gs.columnsPending = {} /\ gs.fksPending = {t}
           IN  gs' = [gs EXCEPT !.fksPending = @ \ {t},
                                !.foreign_keys = IF o = "ok" THEN @ \cup {t} ELSE @,
                                !.failed = IF o = "ok" THEN @
                                           ELSE @ \cup {<<"foreign_keys", t>>},
                                !.processed = @ + 1,
                                !.pc = IF last THEN "settled" ELSE @,
                                !.settleCalls = IF done THEN @ + 1 ELSE @,
                                !.settled = IF done /\ @ = "pending"
                                            THEN "resolved" ELSE @]
    /\ UNCHANGED <<handlerVars, rw, tool, idb, cli, web>>

NextSchema ==
    \/ InitDBReturn
    \/ TablesReturn
    \/ ColumnsReturn
    \/ ForeignKeysReturn

SpecSchema == InitSchema /\ [][NextSchema]_vars

(***************************************************************************)
(* initDB() called by concurrent requests (each through getSchema) on the  *)
(* module's single handle dbInstance, guarded by the flag dbInitialized.   *)
(***************************************************************************)
Requests == {"r1", "r2", "r3"}

InitInitDB ==
    /\ HandlerIdle
    /\ rw = Idle
    /\ tool = Idle
    /\ gs = Idle
    /\ cli = Idle
    /\ web = Idle
    /\ idb = [dbInitialized |-> FALSE, attached |-> FALSE, installs |-> 0, attaches |-> 0,
              engineFailed |-> FALSE, collided |-> {},
              req |-> [r \in Requests |-> "start"]]

\* if (dbInitialized) return; otherwise INSTALL sqlite; LOAD sqlite; is issued
MustInit(initialized) == ~initialized

InitDBCall ==
    /\ \E r \in Requests :
         /\ idb.req[r] = "start"
         /\ idb' = IF MustInit(idb.dbInitialized)
                   THEN [idb EXCEPT !.req[r] = "install", !.installs = @ + 1]
                   ELSE [idb EXCEPT !.req[r] = "ready"]
    /\ UNCHANGED <<handlerVars, rw, tool, gs, cli, web>>

\* callback of INSTALL/LOAD: reject(err), or ATTACH is issued
InstallReturn ==
    /\ \E r \in Requests, o \in ExecOutcomes :
         /\ idb.req[r] = "install"
         /\ idb' = IF o = "fail"
                   THEN [idb EXCEPT !.req[r] = "failed", !.engineFailed = TRUE]
                   ELSE [idb EXCEPT !.req[r] = "attach", !.attaches = @ + 1]
    /\ UNCHANGED <<handlerVars, rw, tool, gs, cli, web>>

\* callback of ATTACH ... AS chinook: the engine refuses a catalog name that is
\* already attached; reject(err), or dbInitialized = true and resolve()
AttachReturn ==
    /\ \E r \in Requests, o \in ExecOutcomes :
         /\ idb.req[r] = "attach"
         /\ idb' = IF idb.attached
                   THEN [idb EXCEPT !.req[r] = "failed", !.collided = @ \cup {r}]
                   ELSE IF o = "fail"
                   THEN [idb EXCEPT !.req[r] = "failed", !.engineFailed = TRUE]
                   ELSE [idb EXCEPT !.req[r] = "ready", !.attached = TRUE,
                                    !.dbInitialized = TRUE]
    /\ UNCHANGED <<handlerVars, rw, tool, gs, cli, web>>

NextInitDB ==
    \/ InitDBCall
    \/ InstallReturn
    \/ AttachReturn

SpecInitDB == InitInitDB /\ [][NextInitDB]_vars

(***************************************************************************)
(* The command-line pipeline sqlOfThought(question): one action per await. *)
(* executeSQL is the executor tool, which resolves with a success or a     *)
(* failure result and never rejects.                                       *)
(***************************************************************************)
MAX_CORRECTION_ATTEMPTS == 3

\* the stages awaited before the loop, and the one that follows each
CliStages == <<"schema", "link", "subproblem", "plan", "sqlgen">>
CliStageOf(p) == CHOOSE i \in DOMAIN CliStages : CliStages[i] = p

\* while (attempt <= MAX_CORRECTION_ATTEMPTS && !success)
CliLoopCond(att, succ) == att <= MAX_CORRECTION_ATTEMPTS /\ ~succ
\* if (attempt < MAX_CORRECTION_ATTEMPTS)
CliCanCorrect(att) == att < MAX_CORRECTION_ATTEMPTS

\* the loop head reached from the state c
CliLoopHead(c) ==
    IF CliLoopCond(c.attempt, c.success)
    THEN [c EXCEPT !.pc = "execute", !.executed = Append(@, c.generatedSQL)]
    ELSE [c EXCEPT !.pc = "done"]

InitCli ==
    /\ HandlerIdle
    /\ rw = Idle
    /\ tool = Idle
    /\ gs = Idle
    /\ idb = Idle
    /\ web = Idle
    /\ cli = [pc |-> "schema", attempt |-> 0, success |-> FALSE, generatedSQL |-> 0,
              executed |-> <<>>, corrections |-> 0, errors |-> <<>>, shown |-> <<>>,
              caught |-> FALSE]

\* getCompleteSchema and the four generation agents: a rejection or a throw
\* goes to the catch of sqlOfThought
CliStageReturn ==
    /\ cli.pc \in {CliStages[i] : i \in DOMAIN CliStages}
    /\ \E o \in TextOutcomes :
         cli' = IF o = "throw"
                THEN [cli EXCEPT !.pc = "done", !.caught = TRUE]
                ELSE IF cli.pc = "sqlgen"
                THEN CliLoopHead([cli EXCEPT !.generatedSQL = 1])
                ELSE [cli EXCEPT !.pc = CliStages[CliStageOf(cli.pc) + 1]]
    /\ UNCHANGED <<handlerVars, rw, tool, gs, idb, web>>

\* executeSQL(generatedSQL, DB_PATH) resolves
CliExecuteReturn ==
    /\ cli.pc = "execute"
    /\ \E o \in ExecOutcomes, m \in ErrorMessages, rs \in ToolRowSets :
         cli' = IF o = "ok"
                THEN CliLoopHead([cli EXCEPT !.success = TRUE,
                                             !.shown = CleanResults(rs)])
                ELSE IF CliCanCorrect(cli.attempt)
                THEN [cli EXCEPT !.pc = "corrplan", !.errors = Append(@, m),
                                 !.corrections = @ + 1]
                ELSE CliLoopHead([cli EXCEPT !.errors = Append(@, m),
                                             !.attempt = @ + 1])
    /\ UNCHANGED <<handlerVars, rw, tool, gs, idb, web>>

\* correctionPlanAgent returns
CliCorrectionPlanReturn ==
    /\ cli.pc = "corrplan"
    /\ \E o \in TextOutcomes :
         cli' = IF o = "throw"
                THEN [cli EXCEPT !.pc = "done", !.caught = TRUE]
                ELSE [cli EXCEPT !.pc = "corrsql"]
    /\ UNCHANGED <<handlerVars, rw, tool, gs, idb, web>>

\* correctionSQLAgent returns the query that replaces generatedSQL; attempt++
CliCorrectionSQLReturn ==
    /\ cli.pc = "corrsql"
    /\ \E o \in TextOutcomes :
         cli' = IF o = "throw"
                THEN [cli EXCEPT !.pc = "done", !.caught = TRUE]
                ELSE CliLoopHead([cli EXCEPT !.generatedSQL = @ + 1,
                                             !.attempt = @ + 1])
    /\ UNCHANGED <<handlerVars, rw, tool, gs, idb, web>>

NextCli ==
    \/ CliStageReturn
    \/ CliExecuteReturn
    \/ CliCorrectionPlanReturn
    \/ CliCorrectionSQLReturn

SpecCli == InitCli /\ [][NextCli]_vars

\* a request to the server, or a run of the command-line pipeline
SpecServerAndCli == (Init \/ InitCli) /\ [][Next \/ NextCli]_vars

(***************************************************************************)
(* The browser client (web/app.js): the API-key field, the question field, *)
(* the Run button and the requests the page issues with fetch.             *)
(***************************************************************************)
MaxClientRequests == 3
ApiKeys == {"", "sk-1", "sk-2"}
Questions == {"", "q"}
Backend == "http://localhost:3001/api/sql-of-thought"

\* a fetch: its destination and the key it carries ("" when it carries none)
Request(url, key) == [url |-> url, apiKey |-> key]

InitWeb ==
    /\ HandlerIdle
    /\ rw = Idle
    /\ tool = Idle
    /\ gs = Idle
    /\ idb = Idle
    /\ cli = Idle
    /\ web \in {[pc |-> "page", apiKey |-> k, question |-> "", isRunning |-> FALSE,
                 runBtnDisabled |-> FALSE, stored |-> k, requests |-> <<>>,
                 runs |-> <<>>, lastCall |-> "none", lastExit |-> "none",
                 sawComplete |-> FALSE] : k \in ApiKeys}

\* 'change' of the API-key field: apiKey = value; localStorage.setItem(...)
ChangeApiKey ==
    /\ web.pc = "page"
    /\ \E k \in ApiKeys : web' = [web EXCEPT !.apiKey = k, !.stored = k]
    /\ UNCHANGED <<handlerVars, rw, tool, gs, idb, cli>>

\* the question field is typed in, or filled by an example button
ChangeQuestion ==
    /\ web.pc = "page"
    /\ \E q \in Questions : web' = [web EXCEPT !.question = q]
    /\ UNCHANGED <<handlerVars, rw, tool, gs, idb, cli>>

\* if (isRunning) return;
AlreadyRunning_ignored(running) == FALSE
AlreadyRunning(running) == running

\* a call of runSQLOfThought, up to its fetch: the three early returns, then
\* isRunning = true; runBtn.disabled = true; and the request is sent
ClickRun ==
    /\ web.pc = "page"
    /\ Len(web.requests) < MaxClientRequests
    /\ web' = IF web.apiKey = "" THEN [web EXCEPT !.lastCall = "noKey"]
              ELSE IF web.question = "" THEN [web EXCEPT !.lastCall = "noQuestion"]
              ELSE IF AlreadyRunning(web.isRunning) THEN [web EXCEPT !.lastCall = "running"]
              ELSE [web EXCEPT !.lastCall = "started",
                               !.isRunning = TRUE,
                               !.runBtnDisabled = TRUE,
                               !.sawComplete = FALSE,
                               !.requests = Append(@, Request(Backend, web.apiKey)),
                               !.runs = Append(@, "fetch")]
    /\ UNCHANGED <<handlerVars, rw, tool, gs, idb, cli>>

\* catch (where the path threw) and finally: isRunning = false;
\* runBtn.disabled = false;
Finally(w, i, path) ==
    [w EXCEPT !.runs[i] = "exited", !.lastExit = path,
              !.isRunning = FALSE, !.runBtnDisabled = FALSE]

\* await fetch(...) returns a response, returns one that is not ok, or rejects
FetchReturn ==
    /\ web.pc = "page"
    /\ \E i \in DOMAIN web.runs, o \in {"ok", "notOk", "fetchFailed"} :
         /\ web.runs[i] = "fetch"
         /\ web' = IF o = "ok" THEN [web EXCEPT !.runs[i] = "reading"]
                   ELSE Finally(web, i, o)
    /\ UNCHANGED <<handlerVars, rw, tool, gs, idb, cli>>

\* await reader.read() and the handling of the frames it delivered: a
\* 'complete' event is shown and the loop goes on, an 'error' event or an
\* exception throws, and done breaks out of the loop
ReadReturn ==
    /\ web.pc = "page"
    /\ \E i \in DOMAIN web.runs, o \in {"complete", "errorEvent", "exception", "streamEnd"} :
         /\ web.runs[i] = "reading"
         /\ IF o = "complete"
            THEN /\ ~web.sawComplete
                 /\ web' = [web EXCEPT !.sawComplete = TRUE]
            ELSE web' = Finally(web, i, o)
    /\ UNCHANGED <<handlerVars, rw, tool, gs, idb, cli>>

NextWeb ==
    \/ ChangeApiKey
    \/ ChangeQuestion
    \/ ClickRun
    \/ FetchReturn
    \/ ReadReturn

SpecWeb == InitWeb /\ [][NextWeb]_vars

(***************************************************************************)
(* The event stream between the server's emit and the reader loop of the   *)
(* browser client.  The response body is a sequence of characters; the     *)
(* transport delivers it to reader.read() in chunks cut anywhere.  web is  *)
(* here the state of one reader loop and of the response it reads.         *)
(***************************************************************************)
MaxFrames == 2
LF == "LF"
Backslash == "BS"
\* the text an event carries: an output or an error message, with line
\* feeds, blank lines and backslashes
EventTexts == {<<>>, <<"n">>, <<LF>>, <<LF, LF>>, <<Backslash, "n">>, <<"n", LF>>}
EventTypes == {"agent_update", "error"}
Events == [type : EventTypes, text : EventTexts]

\* JSON.stringify of a string: a line feed and a backslash are escaped
RECURSIVE Stringify(_)
Stringify(t) ==
    IF t = <<>> THEN <<>>
    ELSE (IF Head(t) = LF THEN <<Backslash, "n">>
          ELSE IF Head(t) = Backslash THEN <<Backslash, Backslash>>
          ELSE <<Head(t)>>) \o Stringify(Tail(t))

\* JSON.parse of a string
RECURSIVE ParseString(_)
ParseString(s) ==
    IF s = <<>> THEN <<>>
    ELSE IF Head(s) = Backslash /\ Len(s) >= 2
    THEN <<(IF s[2] = "n" THEN LF ELSE s[2])>> \o ParseString(Tail(Tail(s)))
    ELSE <<Head(s)>> \o ParseString(Tail(s))

DataPrefix == <<"data:", Space>>

\* `data: ${JSON.stringify(message)}\n\n`
Frame(e) == DataPrefix \o <<e.type>> \o Stringify(e.text) \o <<LF, LF>>

\* JSON.parse(line.substring(6))
ParseLine(line) ==
    LET json == SubSeq(line, Len(DataPrefix) + 1, Len(line))
    IN  [type |-> Head(json), text |-> ParseString(Tail(json))]

\* buffer.split('\n\n')
RECURSIVE Split(_)
Split(s) ==
    IF \E i \in 1..(Len(s) - 1) : s[i] = LF /\ s[i + 1] = LF
    THEN LET i == CHOOSE i \in 1..(Len(s) - 1) :
                      /\ s[i] = LF /\ s[i + 1] = LF
                      /\ \A j \in 1..(i - 1) : ~(s[j] = LF /\ s[j + 1] = LF)
         IN  <<SubSeq(s, 1, i - 1)>> \o Split(SubSeq(s, i + 2, Len(s)))
    ELSE <<s>>

\* buffer = lines.pop() || ''
Remainder_dropped(pieces) == <<>>
Remainder(pieces) == pieces[Len(pieces)]

\* if (!line.trim() || !line.startsWith('data: ')) continue;
Skipped(line) ==
    \/ \A i \in DOMAIN line : line[i] \in {Space, LF}
    \/ Len(line) < Len(DataPrefix) + 1
    \/ SubSeq(line, 1, Len(DataPrefix)) # DataPrefix

\* for (const line of lines): the events handled, up to and with the first
\* 'error' event, whose handling throws
RECURSIVE HandleLines(_)
HandleLines(lines) ==
    IF lines = <<>> THEN <<>>
    ELSE IF Skipped(Head(lines)) THEN HandleLines(Tail(lines))
    ELSE LET data == ParseLine(Head(lines))
         IN  IF data.type = "error" THEN <<data>>
             ELSE <<data>> \o HandleLines(Tail(lines))

InitReader ==
    /\ HandlerIdle
    /\ rw = Idle
    /\ tool = Idle
    /\ gs = Idle
    /\ idb = Idle
    /\ cli = Idle
    /\ web = [pc |-> "reading", emitted |-> <<>>, sent |-> 0, wire |-> <<>>,
              ended |-> FALSE, buffer |-> <<>>, handled |-> <<>>, cutInside |-> FALSE]

\* the server's emit: res.write of one frame; an 'error' event is the last one
EmitFrame ==
    /\ web.pc \in {"reading", "thrown", "done"}
    /\ ~web.ended
    /\ Len(web.emitted) < MaxFrames
    /\ \A i \in DOMAIN web.emitted : web.emitted[i].type # "error"
    /\ \E e \in Events :
           web' = [web EXCEPT !.emitted = Append(@, e),
                              !.sent = @ + Len(Frame(e)),
                              !.wire = @ \o Frame(e)]
    /\ UNCHANGED <<handlerVars, rw, tool, gs, idb, cli>>

\* res.end()
ServerEnd ==
    /\ web.pc \in {"reading", "thrown", "done"}
    /\ ~web.ended
    /\ web' = [web EXCEPT !.ended = TRUE]
    /\ UNCHANGED <<handlerVars, rw, tool, gs, idb, cli>>

\* reader.read() delivers the next n characters: one turn of the while loop
ReadChunk ==
    /\ web.pc = "reading"
    /\ \E n \in 1..Len(web.wire) :
           LET value == SubSeq(web.wire, 1, n)
               lines == Split(web.buffer \o value)
               complete == SubSeq(lines, 1, Len(lines) - 1)
               events == HandleLines(complete)
               threw == events # <<>> /\ events[Len(events)].type = "error"
           IN  web' = [web EXCEPT !.wire = SubSeq(@, n + 1, Len(@)),
                                  !.buffer = Remainder(lines),
                                  !.handled = @ \o events,
                                  !.cutInside = @ \/ lines[Len(lines)] # <<>>,
                                  !.pc = IF threw THEN "thrown" ELSE @]
    /\ UNCHANGED <<handlerVars, rw, tool, gs, idb, cli>>

\* reader.read() returns done: break
ReadDone ==
    /\ web.pc = "reading"
    /\ web.ended
    /\ web.wire = <<>>
    /\ web' = [web EXCEPT !.pc = "done"]
    /\ UNCHANGED <<handlerVars, rw, tool, gs, idb, cli>>

NextReader ==
    \/ EmitFrame
    \/ ServerEnd
    \/ ReadChunk
    \/ ReadDone

SpecReader == InitReader /\ [][NextReader]_vars

(***************************************************************************)
(* Observations of a run, read off the stream and the call logs.           *)
(***************************************************************************)
IsExecute(r) == r.call = "execute"
IsModelCall(r) == r.call \in {"llm_schema", "llm_subproblem", "llm_queryplan", "llm_sql",
                              "llm_corrplan", "llm_corrsql"}
IsLoopCall(c) == c \in {"execute", "llm_corrplan", "llm_corrsql"}
IsTerminal(e) == e.type \in {"complete", "error"}
IsCorrectionSQLDone(r) == r.call = "llm_corrsql" /\ r.outcome = "ok"

\* the outcomes of the loop's executions, in order
ExecResults == SelectSeq(returns, IsExecute)
\* the executions and correction-agent calls issued, in order
LoopCalls == SelectSeq(calls, IsLoopCall)
\* correction cycles carried out: both correction agents ran and returned
CorrectionCycles == Len(SelectSeq(returns, IsCorrectionSQLDone))
TerminalEvents == SelectSeq(stream, IsTerminal)
LastEvent == stream[Len(stream)]
AllExecutionsFailed == \A i \in DOMAIN ExecResults : ExecResults[i].outcome = "fail"
\* every model call so far returned text, and structured text parsed
ModelCallsParsed ==
    \A i \in DOMAIN returns :
        IsModelCall(returns[i]) => returns[i].outcome \in {"ok", "nokey"}
MalformedIn(c) == \E i \in DOMAIN returns : returns[i] = Returned(c, "malformed")
IsCorrectionStart(e) == e = AgentEvent("agent_start", "correction")
\* correction cycles entered
CorrectionStarts == Len(SelectSeq(stream, IsCorrectionStart))
\* failed executions that were not the last permitted one
FailuresBelowCeiling ==
    Cardinality({k \in DOMAIN ExecResults :
                    ExecResults[k].outcome = "fail" /\ k < maxAttempts})
FullLoop == <<"execute", "llm_corrplan", "llm_corrsql",
              "execute", "llm_corrplan", "llm_corrsql", "execute">>

(***************************************************************************)
(* C1: when SQL execution fails on all 3 attempts, the complete event that *)
(* ends the run has success = false and attempts = 3.                      *)
(* The code sends attempts: attempt + 1 with attempt = 3.                  *)
(***************************************************************************)
C1_AllFailedReportsThree ==
    (pc = "done" /\ Len(ExecResults) = 3 /\ AllExecutionsFailed)
        => /\ Len(TerminalEvents) = 1
           /\ LastEvent.type = "complete"
           /\ LastEvent.success = FALSE
           /\ LastEvent.attempts = 3

(***************************************************************************)
(* C2: the attempts of every complete event equal 1 + the number of        *)
(* correction cycles carried out in the run, and never exceed 3.           *)
(***************************************************************************)
C2_AttemptsCountCycles ==
    \A i \in DOMAIN stream :
        stream[i].type = "complete"
            => /\ stream[i].attempts = 1 + CorrectionCycles
               /\ stream[i].attempts <= 3

(***************************************************************************)
(* C3: the ceiling counts executions: a run issues its executions and      *)
(* correction-agent calls as a prefix of execute, correct, execute,        *)
(* correct, execute, so at most 3 executions and 2 correction cycles, and  *)
(* the run is over once the third execution has returned.                  *)
(***************************************************************************)
C3_LoopOrder ==
    /\ Len(LoopCalls) <= Len(FullLoop)
    /\ \A i \in DOMAIN LoopCalls : LoopCalls[i] = FullLoop[i]
    /\ Len(ExecResults) <= 3
    /\ CorrectionCycles <= 2
    /\ Len(ExecResults) = 3 => pc = "done"

C3_Witness == pc = "done" /\ LoopCalls = FullLoop /\ ~success

(***************************************************************************)
(* C4: when the first execution succeeds, the stream holds no event of     *)
(* agent correction and no agent_update of agent sql.                      *)
(***************************************************************************)
C4_FirstSuccessNoCorrection ==
    (Len(ExecResults) >= 1 /\ ExecResults[1].outcome = "ok")
        => \A i \in DOMAIN stream :
               /\ stream[i].agent # "correction"
               /\ ~(stream[i].type = "agent_update" /\ stream[i].agent = "sql")

C4_Witness ==
    /\ pc = "done"
    /\ Len(ExecResults) = 1
    /\ ExecResults[1].outcome = "ok"
    /\ LastEvent.type = "complete"

C6_StartPrecedes ==
    \A i \in DOMAIN stream :
        stream[i].type \in {"agent_complete", "agent_error"}
            => \E j \in 1..(i - 1) :
                   stream[j].type = "agent_start" /\ stream[j].agent = stream[i].agent

\* the completion sent for correction after the last failed attempt
C6_Witness ==
    \E i \in DOMAIN stream :
        /\ i > 1
        /\ stream[i] = AgentEvent("agent_complete", "correction")
        /\ stream[i - 1].type = "agent_error"
        /\ stream[i - 1].agent = "execute"

(***************************************************************************)
(* C7: every agent_start of a stage X is followed, before the terminal     *)
(* event, by an agent_complete or agent_error of X, also when the stage    *)
(* throws.  The code goes from a throwing stage straight to the error      *)
(* frame.                                                                  *)
(***************************************************************************)
C7_StartIsClosed ==
    pc = "done"
        => \A i \in DOMAIN stream :
               stream[i].type = "agent_start"
                   => \E j \in (i + 1)..Len(stream) :
                          /\ stream[j].type \in {"agent_complete", "agent_error"}
                          /\ stream[j].agent = stream[i].agent

(***************************************************************************)
(* C8: malformed JSON from the subproblem, query-plan or correction-plan   *)
(* stage does not abort the run: it ends with complete, not error.         *)
(* The code's JSON.parse throws into the handler's catch.                  *)
(***************************************************************************)
C8_MalformedIsRecovered ==
    (/\ pc = "done"
     /\ \/ MalformedIn("llm_subproblem")
        \/ MalformedIn("llm_queryplan")
        \/ MalformedIn("llm_corrplan"))
        => LastEvent.type = "complete"

(***************************************************************************)
(* C9: when the schema-linking output fails to parse, the run ends with    *)
(* an error event and no later stage starts: the only agent event is the   *)
(* start of schema, no further model call is made, no SQL is executed.     *)
(***************************************************************************)
C9_SchemaParseFatal ==
    MalformedIn("llm_schema")
        => /\ pc = "done"
           /\ stream = <<AgentEvent("agent_start", "schema"), ErrorEvent>>
           /\ calls = <<"getSchema", "llm_schema">>

C9_Witness == MalformedIn("llm_schema") /\ pc = "done"

C11_CompleteCarriesFinalSQL ==
    (pc = "done" /\ success /\ LastEvent.type = "complete")
        => LastEvent.sql = sqlWithSchema

(***************************************************************************)
(* C12: a request without question or without apiKey is rejected at once:  *)
(* it is answered 400, nothing is written to the stream and no upstream    *)
(* call (schema load, model call, execution) is ever issued.               *)
(***************************************************************************)
C12_InvalidRequestRunsNothing ==
    (~hasApiKey \/ ~hasQuestion)
        => /\ stream = <<>>
           /\ calls = <<>>
           /\ returns = <<>>
           /\ pc \in {"start", "returned"}
           /\ pc = "returned" => status400

C12_Witness == pc = "returned" /\ status400 /\ hasApiKey /\ ~hasQuestion
(***************************************************************************)
(* C13: when the client disconnects while the run is in progress, every    *)
(* later emit is a no-op: nothing more is written to the response.  The    *)
(* code registers the 'close' listener only after the pipeline, so         *)
(* responseEnded stays false and every later emit still writes.            *)
(***************************************************************************)
C13_NoWriteAfterDisconnect == clientClosed => Len(stream) = closedAt

(***************************************************************************)
(* C14: once the response has been ended, an emit writes nothing, and      *)
(* res.end() is invoked at most once however often safeEnd is called.      *)
(***************************************************************************)
C14_EndedEmitIsNoOp ==
    /\ [][responseEnded => stream' = stream]_vars
    /\ [](endCalls <= 1)

\* safeEnd, then an emit, then safeEnd again
C14_Witness ==
    /\ Len(calls) >= 3
    /\ \E i \in 1..(Len(calls) - 2) :
           calls[i] = "safeEnd" /\ calls[i + 1] = "emit" /\ calls[i + 2] = "safeEnd"
    /\ endCalls = 1

(***************************************************************************)
(* C15: the handler's schema-qualification rewrite is idempotent, and its  *)
(* output never contains a doubled 'chinook.chinook.'.                     *)
(***************************************************************************)
C15_RewriteIdempotent ==
    /\ rw.pc \in {"once", "twice"} => ~HasDouble(rw.once)
    /\ rw.pc = "twice" => rw.twice = rw.once

(***************************************************************************)
(* C16: a reference the caller already qualified with 'chinook.' reaches   *)
(* the engine with a single qualification: the tool's rewrite introduces   *)
(* no doubled catalog prefix.                                              *)
(***************************************************************************)
C16_ToolKeepsSingleQualification ==
    tool.pc \in {"query", "resolved"} =>
        (~HasDouble(tool.cleaned) => ~HasDouble(tool.submitted))

(***************************************************************************)
(* C17: in a successful run the results of the complete event are the      *)
(* engine's rows with every bigint replaced by the decimal string of its   *)
(* value, and no bigint is left in the payload.                            *)
(***************************************************************************)
DigitValue(ch) == CHOOSE d \in 0..9 : DigitChar(d) = ch
IsDigit(ch) == \E d \in 0..9 : DigitChar(d) = ch
RECURSIVE DecimalNat(_)
DecimalNat(str) ==
    IF str = <<>> THEN 0
    ELSE DecimalNat(SubSeq(str, 1, Len(str) - 1)) * 10 + DigitValue(str[Len(str)])
IsDecimalNat(str) ==
    /\ str # <<>>
    /\ \A i \in DOMAIN str : IsDigit(str[i])
    /\ Len(str) > 1 => str[1] # "0"
\* the canonical decimal numerals and the integers they denote
IsDecimal(str) ==
    IF str # <<>> /\ str[1] = "-" THEN IsDecimalNat(Tail(str)) /\ Tail(str) # <<"0">>
    ELSE IsDecimalNat(str)
DecimalValue(str) == IF str[1] = "-" THEN 0 - DecimalNat(Tail(str)) ELSE DecimalNat(str)

C18_ToolResultNarrowed ==
    (tool.pc = "resolved" /\ tool.result.success) =>
        \A i \in DOMAIN tool.result.result : \A c \in Columns :
            tool.result.result[i][c].kind # "bigint"

(***************************************************************************)
(* C19: when the engine rejects a query, the error text of the failure     *)
(* result is the engine's message of that execution: the tool's error, and *)
(* in the server the k-th agent_error(execute) event and the text given to *)
(* the k-th correctionPlanAgent call.                                      *)
(***************************************************************************)
IsExecuteError(e) == e.type = "agent_error" /\ e.agent = "execute"
ExecuteErrors == SelectSeq(stream, IsExecuteError)

C19_EngineErrorVerbatim ==
    /\ (tool.pc = "resolved" /\ tool.rejected) =>
           /\ ~tool.result.success
           /\ tool.result.error = tool.engineError
    /\ Len(ExecuteErrors) = Len(engineErrors)
    /\ \A k \in DOMAIN ExecuteErrors : ExecuteErrors[k].error = engineErrors[k]
    /\ Len(corrInputs) <= Len(engineErrors)
    /\ \A k \in DOMAIN corrInputs : corrInputs[k].error = engineErrors[k]

\* three rejected executions in the server, with different messages
C19_Witness ==
    /\ pc = "done"
    /\ Len(engineErrors) = maxAttempts
    /\ engineErrors[1] # engineErrors[2]
    /\ Len(corrInputs) = maxAttempts - 1

(***************************************************************************)
(* C20: getSchema never resolves with a partial schema: when the table     *)
(* query, or the column or foreign-key query of a table, fails, it rejects.*)
(***************************************************************************)
C20_NoPartialSchema == (gs.pc = "settled" /\ gs.failed # {}) => gs.settled = "rejected"

(***************************************************************************)
(* C21: a failure of the DESCRIBE probe never aborts the correction: the   *)
(* probe counts as no columns, the prompt of correctionPlanAgent is built  *)
(* without the table-inspection section, and the model call is made.       *)
(***************************************************************************)
IsFailedProbe(r) == r = Returned("describe", "fail")
IsPlanInput(x) == x.call = "llm_corrplan"
IsPlanCall(c) == c = "llm_corrplan"
IsAfterFailedProbe(x) == x.call = "llm_corrplan" /\ x.probe = "fail"
PlanInputs == SelectSeq(inputs, IsPlanInput)

C21_ProbeFailureNotFatal ==
    /\ Len(SelectSeq(returns, IsFailedProbe)) = Len(SelectSeq(inputs, IsAfterFailedProbe))
    /\ Len(SelectSeq(calls, IsPlanCall)) = Len(PlanInputs)
    /\ \A i \in DOMAIN PlanInputs :
           PlanInputs[i].probe \in {"fail", "empty"} => ~PlanInputs[i].tableInspection
    /\ (returns # <<>> /\ IsFailedProbe(returns[Len(returns)])) => pc = "await_corrplan"

\* the probe failed, the correction went on and the run ended in success
C21_Witness ==
    /\ pc = "done" /\ success
    /\ \E i \in DOMAIN inputs : IsAfterFailedProbe(inputs[i])

(***************************************************************************)
(* C22: access to the shared handle is serialized: while no engine call    *)
(* has failed on its own, concurrent requests issue INSTALL/LOAD and       *)
(* ATTACH at most once between them, and no request fails because another  *)
(* one was initializing the database at the same time.                     *)
(***************************************************************************)
C22_InitSerialized ==
    /\ ~idb.engineFailed => (idb.installs <= 1 /\ idb.attaches <= 1)
    /\ idb.collided = {}

(***************************************************************************)
(* C23: the command-line pipeline makes at most 2 correction attempts per  *)
(* question, whatever the executions return.                               *)
(***************************************************************************)
C23_AtMostTwoCorrections == cli.pc # "idle" => cli.corrections <= 2

(***************************************************************************)
(* C24: the API key entered in the browser is only ever sent to OpenAI: no *)
(* request the client issues to another destination carries the key.       *)
(***************************************************************************)
IsOpenAI(url) == url = "https://api.openai.com/v1/chat/completions"

C24_KeyOnlyToOpenAI ==
    web.pc = "page" =>
        \A i \in DOMAIN web.requests :
            web.requests[i].apiKey # "" => IsOpenAI(web.requests[i].url)

(***************************************************************************)
(* C25: every stage invokes callOpenAI once and callOpenAI issues one      *)
(* completion request, never a retry: a run makes at most 8 model calls,   *)
(* one for each of the 4 generation stages and 2 for each of at most 2     *)
(* correction cycles, and each call returns at most once.                  *)
(***************************************************************************)
GenerationCalls == {"llm_schema", "llm_subproblem", "llm_queryplan", "llm_sql"}
CorrectionCalls == {"llm_corrplan", "llm_corrsql"}
IsModelCallName(c) == c \in GenerationCalls \cup CorrectionCalls
ModelCalls == SelectSeq(calls, IsModelCallName)
ModelReturns == SelectSeq(returns, IsModelCall)
TimesCalled(c) == Cardinality({i \in DOMAIN calls : calls[i] = c})

C25_NoRetry ==
    /\ Len(ModelCalls) <= 8
    /\ \A c \in GenerationCalls : TimesCalled(c) <= 1
    /\ \A c \in CorrectionCalls : TimesCalled(c) <= CorrectionStarts
    /\ CorrectionStarts <= 2
    /\ Len(ModelReturns) <= Len(ModelCalls)
    /\ Len(ModelCalls) <= Len(ModelReturns) + 1
    /\ \A i \in DOMAIN ModelReturns : ModelReturns[i].call = ModelCalls[i]

\* a run with two full correction cycles: 8 model calls
C25_Witness == pc = "done" /\ Len(ModelCalls) = 8 /\ Len(ModelReturns) = 8

(***************************************************************************)
(* C26: the stages are entered in the order schema, subproblem, queryplan, *)
(* sql, execute, with correction entered only from a failed execute and    *)
(* followed by execute: a stage's agent_start comes right after the        *)
(* agent_complete of the stage before it, and no stage but execute and     *)
(* correction is entered twice.                                            *)
(***************************************************************************)
IsStart(e) == e.type = "agent_start"
Starts == SelectSeq(stream, IsStart)
StartOrder == <<"schema", "subproblem", "queryplan", "sql", "execute",
                "correction", "execute", "correction", "execute">>
Preceding(a) ==
    CASE a = "subproblem" -> "schema"
      [] a = "queryplan" -> "subproblem"
      [] a = "sql" -> "queryplan"
      [] a = "execute" -> "sql"
      [] OTHER -> "none"
IsFrame(i, t, a) == i \in DOMAIN stream /\ stream[i].type = t /\ stream[i].agent = a

C26_StageOrder ==
    /\ Len(Starts) <= Len(StartOrder)
    /\ \A k \in DOMAIN Starts : Starts[k].agent = StartOrder[k]
    /\ \A i \in DOMAIN stream :
           IsStart(stream[i]) =>
               CASE stream[i].agent = "schema" -> i = 1
                 [] stream[i].agent = "correction" -> IsFrame(i - 1, "agent_error", "execute")
                 [] stream[i].agent = "execute" ->
                        \/ IsFrame(i - 1, "agent_complete", "sql")
                        \/ /\ IsFrame(i - 1, "agent_update", "sql")
                           /\ IsFrame(i - 2, "agent_complete", "correction")
                 [] OTHER -> IsFrame(i - 1, "agent_complete", Preceding(stream[i].agent))
    /\ \A i \in DOMAIN stream :
           IsFrame(i, "agent_update", "sql") => IsFrame(i + 1, "agent_start", "execute")

\* a run that entered every stage, with both corrections
C26_Witness ==
    /\ pc = "done"
    /\ Len(Starts) = Len(StartOrder)
    /\ success

(***************************************************************************)
(* C27: in each correction cycle the failed query and the error text given *)
(* to the correction agents are those of the execution just before it, and *)
(* the next execution runs the qualified output of that cycle's correction *)
(* SQL agent, which replaces the previous query: the k-th execution runs   *)
(* the k-th query text produced in the run.                                *)
(***************************************************************************)
IsExecuteInput(x) == x.call = "execute"
ExecuteInputs == SelectSeq(inputs, IsExecuteInput)

C27_CorrectionDataFlow ==
    /\ Len(inputs) = Len(LoopCalls)
    /\ \A i \in DOMAIN inputs :
           /\ inputs[i].call = LoopCalls[i]
           /\ inputs[i].call = "llm_corrplan" =>
                  /\ inputs[i - 1].call = "execute"
                  /\ inputs[i].sql = inputs[i - 1].sql
           /\ inputs[i].call = "llm_corrsql" =>
                  /\ inputs[i - 1].call = "llm_corrplan"
                  /\ inputs[i].sql = inputs[i - 1].sql
           /\ (inputs[i].call = "execute" /\ i > 1) => inputs[i - 1].call = "llm_corrsql"
    /\ \A k \in DOMAIN PlanInputs : PlanInputs[k].error = engineErrors[k]
    /\ \A k \in DOMAIN ExecuteInputs : ExecuteInputs[k].sql = k

\* two correction cycles with different errors, then a third execution
C27_Witness ==
    /\ Len(ExecuteInputs) = 3
    /\ Len(PlanInputs) = 2
    /\ PlanInputs[1].error # PlanInputs[2].error
    /\ PlanInputs[2].probe = "ok"

(***************************************************************************)
(* C28: the attempt counter never decreases and changes only by +1, after  *)
(* a failed execution; once success is true it stays true and no further   *)
(* execution or correction is performed.                                   *)
(***************************************************************************)
LastExecutionFailed(rets) ==
    LET ex == SelectSeq(rets, IsExecute)
    IN  ex # <<>> /\ ex[Len(ex)].outcome = "fail"

C28_AttemptAndSuccess ==
    /\ [][/\ attempt' >= attempt
          /\ attempt' # attempt => (attempt' = attempt + 1 /\ LastExecutionFailed(returns'))
          /\ success => (success' /\ calls' = calls /\ inputs' = inputs)]_vars
    /\ [](success => pc = "done")

\* a run that succeeded at its third execution
C28_Witness == pc = "done" /\ success /\ attempt = 2

(***************************************************************************)
(* C29: every result executeSQL resolves with, success or failure, carries *)
(* the elapsed time, the failure for an empty query included.              *)
(***************************************************************************)
C29_ResultCarriesElapsedTime == tool.pc = "resolved" => tool.result.timed

(***************************************************************************)
(* C30: when every upstream call eventually returns, every request         *)
(* eventually is answered 400, or writes a terminal event and has its      *)
(* response ended; the loop never goes beyond its ceiling of executions.   *)
(***************************************************************************)
Answered ==
    \/ pc = "returned" /\ status400
    \/ pc = "done" /\ responseEnded /\ endCalls >= 1 /\ TerminalEvents # <<>>

IsCorrectionClose(e) == e.agent = "correction" /\ e.type \in {"agent_complete", "agent_error"}
StartsWithin(n) == Len(SelectSeq(SubSeq(stream, 1, n), IsCorrectionStart))
ClosesWithin(n) == Len(SelectSeq(SubSeq(stream, 1, n), IsCorrectionClose))

C31_CorrectionClosesItsStart ==
    \A n \in 0..Len(stream) : ClosesWithin(n) <= StartsWithin(n)

(***************************************************************************)
(* C32: in the server and in the command-line pipeline a corrected query   *)
(* is never produced without being executed: every completed correction    *)
(* cycle is followed by an execution of its output, and after the last     *)
(* permitted execution has failed no correction model call is made.        *)
(***************************************************************************)
C32_ServerCorrectionsExecuted ==
    /\ generatedSQL # 0 =>
           /\ Len(ExecuteInputs) = CorrectionCycles + 1
           /\ ExecuteInputs[Len(ExecuteInputs)].sql = sqlWithSchema
    /\ Len(ExecResults) = maxAttempts =>
           /\ pc = "done"
           /\ calls[Len(calls)] = "execute"

C32_CliCorrectionsExecuted ==
    cli.pc # "idle" =>
        /\ Len(cli.executed) = cli.generatedSQL
        /\ \A k \in DOMAIN cli.executed : cli.executed[k] = k
        /\ cli.corrections <= Len(cli.errors)
        /\ Len(cli.errors) = MAX_CORRECTION_ATTEMPTS + 1 =>
               /\ cli.pc = "done"
               /\ cli.corrections = MAX_CORRECTION_ATTEMPTS

C33_HandleClosedOnResolve ==
    tool.pc = "resolved" => tool.closes = 1

(***************************************************************************)
(* C34: the server's getSchema settles its promise exactly once, and when  *)
(* it resolves with a non-empty table list it does so only after the       *)
(* column callback and the foreign-key callback of every table have run,   *)
(* in whatever order the per-table callbacks complete.                     *)
(***************************************************************************)
C34_SchemaSettlesOnceWhenComplete ==
    /\ gs.settleCalls <= 1
    /\ gs.settled = "pending" <=> gs.settleCalls = 0
    /\ gs.pc = "settled" => gs.settleCalls = 1
    /\ (gs.settled = "resolved" /\ gs.tables # {}) =>
           /\ gs.columnsPending = {}
           /\ gs.fksPending = {}
           /\ gs.processed = Cardinality(gs.tables)

\* three tables, every callback has run, one of them out of the tables' order
C34_Witness ==
    /\ gs.settled = "resolved"
    /\ gs.tables = TableNames
    /\ gs.processed = Cardinality(TableNames)
    /\ gs.settleCalls = 1

(***************************************************************************)
(* C35: in the browser client at most one pipeline request is in flight at *)
(* a time: a call of runSQLOfThought while isRunning is true sends no      *)
(* request, and on every exit path of a started run (after a complete      *)
(* event, an error event, a failed fetch, the end of the stream, an        *)
(* exception) isRunning is false again and the Run button is enabled.      *)
(***************************************************************************)
InFlight == {i \in DOMAIN web.runs : web.runs[i] # "exited"}

C35_RunState ==
    /\ Cardinality(InFlight) <= 1
    /\ Len(web.runs) = Len(web.requests)
    /\ web.isRunning <=> InFlight # {}
    /\ web.runBtnDisabled <=> web.isRunning

C35_OneRequestInFlight ==
    /\ []C35_RunState
    /\ [][ /\ web.isRunning => web'.requests = web.requests
           /\ \A i \in DOMAIN web.runs :
                  (web.runs[i] # "exited" /\ web'.runs[i] = "exited") =>
                      (~web'.isRunning /\ ~web'.runBtnDisabled) ]_vars

\* a call made while a run was in flight was turned away, after an earlier
\* run had left through a thrown error event
C35_Witness ==
    /\ web.lastCall = "running"
    /\ web.isRunning
    /\ web.lastExit = "errorEvent"
    /\ Len(web.requests) = 2

(***************************************************************************)
(* C36: the client's stream reader handles each event frame the server     *)
(* wrote exactly once and in emission order, however the characters are    *)
(* cut into chunks (a cut inside a frame or inside the blank-line          *)
(* separator included): the events handled are the events emitted.         *)
(***************************************************************************)
\* the characters delivered so far, and the frames that lie wholly in them
Delivered == web.sent - Len(web.wire)
RECURSIVE FramesLen(_)
FramesLen(es) == IF es = <<>> THEN 0 ELSE Len(Frame(Head(es))) + FramesLen(Tail(es))
FramesDelivered ==
    CHOOSE k \in 0..Len(web.emitted) :
        /\ FramesLen(SubSeq(web.emitted, 1, k)) <= Delivered
        /\ \A j \in (k + 1)..Len(web.emitted) :
               FramesLen(SubSeq(web.emitted, 1, j)) > Delivered

C36_HandledEqualsEmitted ==
    /\ web.handled = SubSeq(web.emitted, 1, FramesDelivered)
    /\ web.pc = "done" => web.handled = web.emitted /\ web.buffer = <<>>

\* two events were read to the end of the stream, one with a blank line in
\* its text, and some chunk ended inside a frame or inside a separator
C36_Witness ==
    /\ web.pc = "done"
    /\ Len(web.handled) = 2
    /\ web.cutInside
    /\ \E i \in DOMAIN web.handled : web.handled[i].text = <<LF, LF>>
====
